---- MODULE Spec2Model ----
(***************************************************************************)
(* Model of core/gemini_client.py: the PDF extraction orchestrator         *)
(* (GeminiCachedExtractor), the direct extractor (GeminiPDFExtractor) and  *)
(* the helpers they use.  The remote service (upload, cache create/delete, *)
(* generate, file delete) and the page-count probe are the environment:    *)
(* each call returns or raises, chosen nondeterministically.               *)
(***************************************************************************)
EXTENDS Integers, Sequences, FiniteSets, TLC

(***************************************************************************)
(* Bounds of the model.                                                    *)
(***************************************************************************)
MaxPages == 7
MaxPlanPages == 14
MaxBatchSize == 5

(***************************************************************************)
(* Program constants.                                                      *)
(***************************************************************************)
LARGE_PDF_THRESHOLD == 5
PAGES_PER_BATCH == 2

(***************************************************************************)
(* Optional values (Python None) and exceptions.                           *)
(***************************************************************************)
None == <<>>
Some(x) == <<x>>
Val(o) == o[1]

Exc(type, msg) == [type |-> type, msg |-> msg]

(***************************************************************************)
(* Strings: substring, prefix and lower-casing, as str/bytes do them.      *)
(***************************************************************************)
Contains(s, sub) ==
    \E i \in 1..(Len(s) - Len(sub) + 1) : SubSeq(s, i, i + Len(sub) - 1) = sub

StartsWith(s, prefix) ==
    /\ Len(s) >= Len(prefix)
    /\ SubSeq(s, 1, Len(prefix)) = prefix

LowerChar(c) ==
    CASE c = "A" -> "a" [] c = "B" -> "b" [] c = "C" -> "c" [] c = "D" -> "d"
      [] c = "E" -> "e" [] c = "F" -> "f" [] c = "G" -> "g" [] c = "H" -> "h"
      [] c = "I" -> "i" [] c = "J" -> "j" [] c = "K" -> "k" [] c = "L" -> "l"
      [] c = "M" -> "m" [] c = "N" -> "n" [] c = "O" -> "o" [] c = "P" -> "p"
      [] c = "Q" -> "q" [] c = "R" -> "r" [] c = "S" -> "s" [] c = "T" -> "t"
      [] c = "U" -> "u" [] c = "V" -> "v" [] c = "W" -> "w" [] c = "X" -> "x"
      [] c = "Y" -> "y" [] c = "Z" -> "z" [] OTHER -> c

RECURSIVE Lower(_)
Lower(s) ==
    IF Len(s) = 0 THEN s
    ELSE LowerChar(SubSeq(s, 1, 1)) \o Lower(SubSeq(s, 2, Len(s)))

(***************************************************************************)
(* ExtractionResult (dataclass, with its defaults).                        *)
(***************************************************************************)
ExtractionResult(success, text, error, prompt_tokens, completion_tokens, total_tokens, page_count, used_caching) ==
    [success |-> success, text |-> text, error |-> error,
     prompt_tokens |-> prompt_tokens, completion_tokens |-> completion_tokens,
     total_tokens |-> total_tokens, page_count |-> page_count,
     used_caching |-> used_caching]

Failure(error) ==
    ExtractionResult(FALSE, None, Some(error), None, None, None, None, FALSE)

(***************************************************************************)
(* validate_pdf_bytes: (is_valid, error_message).                          *)
(***************************************************************************)
validate_nonempty_only(pdf_bytes) ==
    IF Len(pdf_bytes) = 0 THEN [is_valid |-> FALSE, error |-> "File is empty"]
    ELSE [is_valid |-> TRUE, error |-> ""]

validate_pdf_bytes(pdf_bytes) ==
    IF Len(pdf_bytes) = 0 THEN [is_valid |-> FALSE, error |-> "File is empty"]
    ELSE IF ~StartsWith(pdf_bytes, "%PDF-")
         THEN [is_valid |-> FALSE, error |-> "File is not a valid PDF"]
         ELSE [is_valid |-> TRUE, error |-> ""]

(***************************************************************************)
(* _calculate_batches: range(1, page_count + 1, batch_size), each batch    *)
(* ending at min(start + batch_size - 1, page_count).                      *)
(***************************************************************************)
Min(a, b) == IF a <= b THEN a ELSE b

RECURSIVE BatchesFromUnclamped(_, _, _)
BatchesFromUnclamped(start, page_count, batch_size) ==
    IF start >= page_count + 1 THEN <<>>
    ELSE <<<<start, start + batch_size - 1>>>>
         \o BatchesFromUnclamped(start + batch_size, page_count, batch_size)

RECURSIVE BatchesFrom(_, _, _)
BatchesFrom(start, page_count, batch_size) ==
    IF start >= page_count + 1 THEN <<>>
    ELSE <<<<start, Min(start + batch_size - 1, page_count)>>>>
         \o BatchesFrom(start + batch_size, page_count, batch_size)

calculate_batches(page_count) == BatchesFrom(1, page_count, PAGES_PER_BATCH)

(***************************************************************************)
(* Outcome of a call: it raises exc or returns value.                      *)
(***************************************************************************)
Raise(e) == [exc |-> Some(e), value |-> None]
Return(v) == [exc |-> None, value |-> Some(v)]
Raised(o) == o.exc # None

(***************************************************************************)
(* GeminiPDFExtractor._parse_response.                                     *)
(***************************************************************************)
NormalStops == {"STOP", "FINISH_REASON_UNSPECIFIED"}

ReasonMessageGeneric(name) == "Response incomplete"

ReasonMessage(name) ==
    CASE name = "MAX_TOKENS" -> "Response was truncated due to maximum token limit"
      [] name = "SAFETY" -> "Response was blocked due to safety filters"
      [] name = "RECITATION" -> "Response was blocked due to recitation concerns"
      [] name = "OTHER" -> "Response generation stopped unexpectedly"
      [] OTHER -> "Response incomplete (finish_reason: " \o name \o ")"

ResponseText(response) ==
    IF response.text # None /\ Val(response.text) # "" THEN Val(response.text) ELSE ""

parse_response_keeps_empty_text(response) ==
    IF response.candidates = <<>>
    THEN Failure("No response from Gemini API")
    ELSE LET finish_reason == response.candidates[1].finish_reason
             usage == response.usage_metadata
         IN  IF finish_reason # None /\ Val(finish_reason) \notin NormalStops
             THEN Failure(ReasonMessage(Val(finish_reason)))
             ELSE ExtractionResult(TRUE, Some(ResponseText(response)), None,
                    IF usage # None THEN Val(usage).prompt_token_count ELSE None,
                    IF usage # None THEN Val(usage).candidates_token_count ELSE None,
                    IF usage # None THEN Val(usage).total_token_count ELSE None,
                    None, FALSE)

parse_response(response) ==
    IF response.candidates = <<>>
    THEN Failure("No response from Gemini API")
    ELSE LET finish_reason == response.candidates[1].finish_reason
             text == ResponseText(response)
             usage == response.usage_metadata
         IN  IF finish_reason # None /\ Val(finish_reason) \notin NormalStops
             THEN Failure(ReasonMessage(Val(finish_reason)))
             ELSE IF text = ""
                  THEN Failure("No text extracted from PDF")
                  ELSE ExtractionResult(TRUE, Some(text), None,
                         IF usage # None THEN Val(usage).prompt_token_count ELSE None,
                         IF usage # None THEN Val(usage).candidates_token_count ELSE None,
                         IF usage # None THEN Val(usage).total_token_count ELSE None,
                         None, FALSE)

(***************************************************************************)
(* GeminiPDFExtractor.extract_text: validation, one generate_content call  *)
(* (outcome: what the remote call did), every exception turned into a      *)
(* failure result.                                                         *)
(***************************************************************************)
ExtractionFailed(e) == "Extraction failed: " \o e.type \o ": " \o e.msg

simple_extract_text(pdf_bytes, outcome) ==
    IF ~validate_pdf_bytes(pdf_bytes).is_valid
    THEN Failure(validate_pdf_bytes(pdf_bytes).error)
    ELSE IF Raised(outcome)
         THEN Failure(ExtractionFailed(Val(outcome.exc)))
         ELSE parse_response(Val(outcome.value))

(***************************************************************************)
(* _generate_batch_with_cache, from the remote call on: the classification *)
(* of a transport error by its message, the finish-reason check and the    *)
(* extraction of text and token usage.                                     *)
(***************************************************************************)
IsCacheExpiredMessage(msg) ==
    LET error_msg == Lower(msg)
    IN  \/ Contains(error_msg, "cache")
        \/ Contains(error_msg, "expired")
        \/ Contains(error_msg, "not found")

BatchResult(text, prompt_tokens, completion_tokens) ==
    [text |-> text, prompt_tokens |-> prompt_tokens,
     completion_tokens |-> completion_tokens]

generate_batch_with_cache(outcome) ==
    IF Raised(outcome)
    THEN LET e == Val(outcome.exc)
         IN  IF IsCacheExpiredMessage(e.msg)
             THEN Raise(Exc("CacheExpiredError", "Cache expired or invalid: " \o e.msg))
             ELSE Raise(e)
    ELSE LET response == Val(outcome.value)
             usage == response.usage_metadata
         IN  IF /\ response.candidates # <<>>
                /\ response.candidates[1].finish_reason # None
                /\ Val(response.candidates[1].finish_reason) \notin NormalStops
             THEN Raise(Exc("ValueError", "Response incomplete: "
                              \o Val(response.candidates[1].finish_reason)))
             ELSE Return(BatchResult(ResponseText(response),
                    IF usage # None THEN Val(usage).prompt_token_count ELSE Some(0),
                    IF usage # None THEN Val(usage).candidates_token_count ELSE Some(0)))

(***************************************************************************)
(* _generate_batch_without_cache: no classification of transport errors.   *)
(***************************************************************************)
generate_batch_without_cache_unchecked(outcome) ==
    IF Raised(outcome)
    THEN Raise(Val(outcome.exc))
    ELSE LET response == Val(outcome.value)
             usage == response.usage_metadata
         IN  Return(BatchResult(ResponseText(response),
                    IF usage # None THEN Val(usage).prompt_token_count ELSE Some(0),
                    IF usage # None THEN Val(usage).candidates_token_count ELSE Some(0)))

generate_batch_without_cache(outcome) ==
    IF Raised(outcome)
    THEN Raise(Val(outcome.exc))
    ELSE LET response == Val(outcome.value)
             usage == response.usage_metadata
         IN  IF /\ response.candidates # <<>>
                /\ response.candidates[1].finish_reason # None
                /\ Val(response.candidates[1].finish_reason) \notin NormalStops
             THEN Raise(Exc("ValueError", "Response incomplete: "
                              \o Val(response.candidates[1].finish_reason)))
             ELSE Return(BatchResult(ResponseText(response),
                    IF usage # None THEN Val(usage).prompt_token_count ELSE Some(0),
                    IF usage # None THEN Val(usage).candidates_token_count ELSE Some(0)))

(***************************************************************************)
(* The test of _extract_large_pdf for a cache the service refuses because  *)
(* the document is too small.                                              *)
(***************************************************************************)
IsCacheIneligibleMessage(msg) ==
    LET error_msg == Lower(msg)
    IN  \/ Contains(error_msg, "minimum")
        \/ Contains(error_msg, "token")
        \/ Contains(error_msg, "too few")

(***************************************************************************)
(* _delete_cache and _delete_file: what leaves the call when the remote    *)
(* delete did outcome (except Exception: pass).                            *)
(***************************************************************************)
delete_cache_unguarded(outcome) == outcome.exc
delete_cache(outcome) == IF Raised(outcome) THEN None ELSE None
delete_file_unguarded(outcome) == outcome.exc
delete_file(outcome) == IF Raised(outcome) THEN None ELSE None

(***************************************************************************)
(* The batch loop's accumulator (results dict in insertion order, running  *)
(* token sums), the combination of the results and the except clauses.     *)
(***************************************************************************)
DictSetInFront(d, key, v) ==
    <<[key |-> key, text |-> v]>> \o d

DictSet(d, key, v) ==
    IF \E i \in 1..Len(d) : d[i].key = key
    THEN [i \in 1..Len(d) |-> IF d[i].key = key THEN [key |-> key, text |-> v] ELSE d[i]]
    ELSE Append(d, [key |-> key, text |-> v])

NoneTypeError ==
    Exc("TypeError", "unsupported operand type(s) for +=: 'int' and 'NoneType'")

AccumulateOverwriting(acc, key, batch_result) ==
    IF batch_result.prompt_tokens = None \/ batch_result.completion_tokens = None
    THEN Raise(NoneTypeError)
    ELSE Return([results |-> DictSet(acc.results, key, batch_result.text),
                 total_prompt_tokens |-> Val(batch_result.prompt_tokens),
                 total_completion_tokens |-> Val(batch_result.completion_tokens)])

Accumulate(acc, key, batch_result) ==
    IF batch_result.prompt_tokens = None \/ batch_result.completion_tokens = None
    THEN Raise(NoneTypeError)
    ELSE Return([results |-> DictSet(acc.results, key, batch_result.text),
                 total_prompt_tokens |->
                     acc.total_prompt_tokens + Val(batch_result.prompt_tokens),
                 total_completion_tokens |->
                     acc.total_completion_tokens + Val(batch_result.completion_tokens)])

Section(item) ==
    "## Pages " \o ToString(item.key[1]) \o "-" \o ToString(item.key[2])
        \o "\n" \o item.text

RECURSIVE Join(_, _)
Join(sep, items) ==
    IF Len(items) = 0 THEN ""
    ELSE IF Len(items) = 1 THEN Section(items[1])
    ELSE Section(items[1]) \o sep \o Join(sep, Tail(items))

CombinedResultAlwaysCached(acc, page_count, used_caching) ==
    ExtractionResult(TRUE, Some(Join("\n\n", acc.results)), None,
        Some(acc.total_prompt_tokens), Some(acc.total_completion_tokens),
        Some(acc.total_prompt_tokens + acc.total_completion_tokens),
        Some(page_count), TRUE)

CombinedResult(acc, page_count, used_caching) ==
    ExtractionResult(TRUE, Some(Join("\n\n", acc.results)), None,
        Some(acc.total_prompt_tokens), Some(acc.total_completion_tokens),
        Some(acc.total_prompt_tokens + acc.total_completion_tokens),
        Some(page_count), used_caching)

LargePdfHandler(e) ==
    IF e.type = "CacheExpiredError"
    THEN Failure("Cache error: " \o e.msg)
    ELSE Failure(ExtractionFailed(e))

BatchedHandler(e) ==
    Failure("Batched extraction failed: " \o e.type \o ": " \o e.msg)

(***************************************************************************)
(* __init__ of GeminiPDFExtractor and of GeminiCachedExtractor: the same   *)
(* code.  A falsy api_key (None or "") raises before any attribute is set; *)
(* model_name falls back to the GEMINI_MODEL_NAME variable, then to the    *)
(* default.                                                                *)
(***************************************************************************)
DEFAULT_MODEL_NAME == "gemini-2.5-flash"

Truthy(s) == s # None /\ Val(s) # ""

Extractor(class, api_key, model_name) ==
    [class |-> class, api_key |-> api_key, model_name |-> model_name]

init_extractor_unchecked(class, api_key, model_name, env_model) ==
    Return(Extractor(class, api_key,
                     IF Truthy(model_name) THEN Val(model_name)
                     ELSE IF env_model # None THEN Val(env_model)
                     ELSE DEFAULT_MODEL_NAME))

init_extractor(class, api_key, model_name, env_model) ==
    IF ~Truthy(api_key)
    THEN Raise(Exc("ValueError", "Gemini API key is required"))
    ELSE Return(Extractor(class, api_key,
                          IF Truthy(model_name) THEN Val(model_name)
                          ELSE IF env_model # None THEN Val(env_model)
                          ELSE DEFAULT_MODEL_NAME))

(***************************************************************************)
(* The environment: inputs, and what each remote call can do.              *)
(***************************************************************************)
Inputs == {"", "not a pdf", "%PDF", "x%PDF-1.4", "%PDF-1.4 fake pdf"}

ProbeOutcomes ==
    {Raise(Exc("Exception", "Corrupt PDF"))} \cup {Return(n) : n \in 0..MaxPages}

TransportErrors ==
    {Exc("Exception", "Cache expired"), Exc("Exception", "404 Not Found"),
     Exc("Exception", "Deadline exceeded")}

FinishReasons ==
    {None, Some("STOP"), Some("FINISH_REASON_UNSPECIFIED"), Some("MAX_TOKENS"),
     Some("SAFETY"), Some("RECITATION"), Some("OTHER"), Some("BLOCKLIST")}

RunFinishReasons ==
    {None, Some("STOP"), Some("FINISH_REASON_UNSPECIFIED"), Some("MAX_TOKENS")}

Usage(p, c) ==
    [prompt_token_count |-> p, candidates_token_count |-> c,
     total_token_count |-> IF p # None /\ c # None THEN Some(Val(p) + Val(c)) ELSE None]

Usages ==
    {None, Some(Usage(Some(100), Some(50))), Some(Usage(None, Some(50))),
     Some(Usage(Some(100), None))}

Responses ==
    [candidates : {<<>>} \cup {<<[finish_reason |-> f]>> : f \in RunFinishReasons},
     text : {None, Some(""), Some("| a |")},
     usage_metadata : Usages]

GenerateOutcomes == {Raise(e) : e \in TransportErrors} \cup {Return(r) : r \in Responses}

UploadOutcomes == {Raise(Exc("Exception", "Upload failed")), Return(1)}

CreateErrors ==
    {Exc("Exception", "Cache creation failed"),
     Exc("Exception", "Minimum input size not met"),
     Exc("Exception", "Too few pages"),
     Exc("Exception", "Invalid API token")}

DeleteOutcomes == {Raise(Exc("Exception", "Delete failed")), Return(0)}

(***************************************************************************)
(* State.  pc is the position of the one extract_text call in flight;      *)
(* pending is the value a try block or except clause has returned while    *)
(* its finally clause still runs; result is what extract_text returned and *)
(* raised the exception that left it; calls is the log of remote calls     *)
(* with what each did.  The plan_ variables are the arguments and the      *)
(* return value of one _calculate_batches call.                            *)
(***************************************************************************)
VARIABLES pc, pdf_bytes, page_count, mode, uploaded_file, cached_content,
          caches_created, batches, batch_idx, acc, pending, result, raised,
          calls, plan_pc, plan_page_count, plan_batch_size, plan_batches,
          cls_pc, cls_outcome, cls_cached, cls_uncached, cls_direct,
          ctor_pc, ctor_args, ctor_result,
          twin_run, twin_first, twin_answers

orch_vars == <<pc, pdf_bytes, page_count, mode, uploaded_file, cached_content,
               caches_created, batches, batch_idx, acc, pending, result,
               raised, calls>>
plan_vars == <<plan_pc, plan_page_count, plan_batch_size, plan_batches>>
cls_vars == <<cls_pc, cls_outcome, cls_cached, cls_uncached, cls_direct>>
ctor_vars == <<ctor_pc, ctor_args, ctor_result>>
twin_frame == <<twin_run, twin_first>>
twin_vars == <<twin_frame, twin_answers>>
aux_vars == <<plan_vars, cls_vars, ctor_vars, twin_frame>>
vars == <<orch_vars, aux_vars, twin_answers>>

EmptyAcc == [results |-> <<>>, total_prompt_tokens |-> 0, total_completion_tokens |-> 0]

IsFirstBatchAlways(idx) == TRUE
IsFirstBatch(idx) == idx = 0

Call(op, idx, handle, outcome) ==
    [op |-> op, idx |-> idx,
     batch |-> IF idx >= 0 THEN batches[idx + 1] ELSE <<0, 0>>,
     is_first_batch |-> IsFirstBatch(idx), handle |-> handle, outcome |-> outcome,
     returned |-> None]

Returning(call, r) ==
    [call EXCEPT !.returned = IF Raised(r) THEN None ELSE r.value]

(***************************************************************************)
(* Two extract_text calls in a row on the same bytes against a service     *)
(* that answers the second call sequence as it answered the first:         *)
(* twin_run is 0 for a single call, 1 during the first call, 2 during the  *)
(* second; twin_answers holds what the service answered in the first call  *)
(* and is consumed by the second; twin_first is the outcome of the first   *)
(* call.  Answers is what the service may answer to a call; Hear is the    *)
(* service having given that answer.                                       *)
(***************************************************************************)
TwinGenerateOutcomes ==
    {Raise(Exc("Exception", "Cache expired")),
     Raise(Exc("Exception", "Deadline exceeded")),
     Return([candidates |-> <<[finish_reason |-> Some("STOP")]>>,
             text |-> Some("| a |"),
             usage_metadata |-> Some(Usage(Some(100), Some(50)))]),
     Return([candidates |-> <<[finish_reason |-> None]>>,
             text |-> None, usage_metadata |-> None]),
     Return([candidates |-> <<[finish_reason |-> Some("MAX_TOKENS")]>>,
             text |-> Some("| a |"), usage_metadata |-> None]),
     Return([candidates |-> <<>>, text |-> None,
             usage_metadata |-> Some(Usage(None, Some(50)))])}

TwinCreateErrors == {"Cache creation failed", "Too few pages"}

TwinScope(op, S) ==
    IF op = "generate" THEN S \cap TwinGenerateOutcomes
    ELSE IF op = "create_cache"
         THEN {o \in S : Raised(o) => Val(o.exc).msg \in TwinCreateErrors}
         ELSE S

Answers(op, S) ==
    IF twin_run = 0 THEN S
    ELSE IF twin_run = 1 THEN TwinScope(op, S)
    ELSE IF /\ twin_answers # <<>>
            /\ Head(twin_answers).op = op
            /\ Head(twin_answers).outcome \in S
         THEN {Head(twin_answers).outcome}
         ELSE TwinScope(op, S)

Hear(op, outcome) ==
    twin_answers' =
        IF twin_run = 1
        THEN Append(twin_answers, [op |-> op, outcome |-> outcome])
        ELSE IF /\ twin_run = 2
                /\ twin_answers # <<>>
                /\ Head(twin_answers).op = op
                /\ Head(twin_answers).outcome = outcome
             THEN Tail(twin_answers)
             ELSE twin_answers

OkOrError(outcome) == IF Raised(outcome) THEN "error" ELSE "ok"

OrchInit(input) ==
    /\ pc = "start"
    /\ pdf_bytes = input
    /\ page_count = None
    /\ mode = "none"
    /\ uploaded_file = None
    /\ cached_content = None
    /\ caches_created = 0
    /\ batches = <<>>
    /\ batch_idx = 0
    /\ acc = EmptyAcc
    /\ pending = None
    /\ result = None
    /\ raised = None
    /\ calls = <<>>

PlanIdle ==
    /\ plan_pc = "idle"
    /\ plan_page_count = 0
    /\ plan_batch_size = 0
    /\ plan_batches = <<>>

ClassifyIdle ==
    /\ cls_pc = "idle"
    /\ cls_outcome = Raise(Exc("Exception", ""))
    /\ cls_cached = None
    /\ cls_uncached = None
    /\ cls_direct = None

ConstructIdle ==
    /\ ctor_pc = "idle"
    /\ ctor_args = None
    /\ ctor_result = None

TwinIdle ==
    /\ twin_run = 0
    /\ twin_first = None
    /\ twin_answers = <<>>

Init ==
    /\ \E input \in Inputs : OrchInit(input)
    /\ PlanIdle
    /\ ClassifyIdle
    /\ ConstructIdle
    /\ TwinIdle

(***************************************************************************)
(* GeminiCachedExtractor.extract_text up to the choice of strategy:        *)
(* validation, the page-count probe, the threshold test.                   *)
(***************************************************************************)
ProbeFailedGeneric(e) == Failure(ExtractionFailed(e))
ProbeFailed(e) == Failure("Failed to read PDF: " \o e.msg)

UsesSimpleExtractorBelow(n) == n < LARGE_PDF_THRESHOLD
UsesSimpleExtractor(n) == n <= LARGE_PDF_THRESHOLD

ExtractText ==
    /\ pc = "start"
    /\ UNCHANGED aux_vars
    /\ UNCHANGED <<pdf_bytes, uploaded_file, cached_content, caches_created,
                   batches, batch_idx, acc, pending, raised, calls>>
    /\ IF ~validate_pdf_bytes(pdf_bytes).is_valid
       THEN /\ result' = Some(Failure(validate_pdf_bytes(pdf_bytes).error))
            /\ pc' = "done"
            /\ UNCHANGED <<page_count, mode, twin_answers>>
       ELSE \E probe \in Answers("probe", ProbeOutcomes) :
              /\ Hear("probe", probe)
              /\ IF Raised(probe)
                 THEN /\ result' = Some(ProbeFailed(Val(probe.exc)))
                      /\ pc' = "done"
                      /\ UNCHANGED <<page_count, mode>>
                 ELSE /\ page_count' = probe.value
                      /\ result' = None
                      /\ IF UsesSimpleExtractor(Val(probe.value))
                         THEN mode' = "direct" /\ pc' = "direct"
                         ELSE mode' = "cached" /\ pc' = "upload"

(***************************************************************************)
(* The direct path: GeminiPDFExtractor.extract_text, then page_count and   *)
(* used_caching set on its result.                                         *)
(***************************************************************************)
DirectExtractKeepingSingleResult ==
    /\ pc = "direct"
    /\ UNCHANGED aux_vars
    /\ \E outcome \in Answers("generate", GenerateOutcomes) :
         /\ Hear("generate", outcome)
         /\ LET single == simple_extract_text(pdf_bytes, outcome)
            IN  /\ result' = Some(single)
                /\ calls' = Append(calls, Returning(Call("generate_direct", -1, 0,
                                           OkOrError(outcome)), Return(single)))
    /\ pc' = "done"
    /\ UNCHANGED <<pdf_bytes, page_count, mode, uploaded_file, cached_content,
                   caches_created, batches, batch_idx, acc, pending, raised>>

DirectExtract ==
    /\ pc = "direct"
    /\ UNCHANGED aux_vars
    /\ \E outcome \in Answers("generate", GenerateOutcomes) :
         /\ Hear("generate", outcome)
         /\ LET single == simple_extract_text(pdf_bytes, outcome)
            IN  /\ result' = Some([single EXCEPT !.page_count = page_count,
                                                 !.used_caching = FALSE])
                /\ calls' = Append(calls, Returning(Call("generate_direct", -1, 0,
                                           OkOrError(outcome)), Return(single)))
    /\ pc' = "done"
    /\ UNCHANGED <<pdf_bytes, page_count, mode, uploaded_file, cached_content,
                   caches_created, batches, batch_idx, acc, pending, raised>>

(***************************************************************************)
(* _extract_large_pdf.  An exception in the try block goes to the except   *)
(* clauses (LargePdfHandler), whose result waits for the finally clause.   *)
(***************************************************************************)
AbortKeepingPartial(e) ==
    /\ pending' = Some([LargePdfHandler(e) EXCEPT
                          !.text = Some(Join("\n\n", acc.results)),
                          !.prompt_tokens = Some(acc.total_prompt_tokens),
                          !.completion_tokens = Some(acc.total_completion_tokens)])
    /\ pc' = "finally_cache"

AbortUncaught(e) ==
    /\ pending' = None
    /\ pc' = "finally_cache"

AbortSkippingCache(e) ==
    /\ pending' = Some(LargePdfHandler(e))
    /\ pc' = "finally_file"

Abort(e) ==
    /\ pending' = Some(LargePdfHandler(e))
    /\ pc' = "finally_cache"

UploadFileIgnoringFailure ==
    /\ pc = "upload"
    /\ UNCHANGED aux_vars
    /\ UNCHANGED <<pdf_bytes, page_count, mode, cached_content, caches_created,
                   batches, batch_idx, acc, result, raised, pending>>
    /\ \E outcome \in Answers("upload", UploadOutcomes) :
         /\ Hear("upload", outcome)
         /\ calls' = Append(calls, Call("upload", -1, 0, OkOrError(outcome)))
         /\ uploaded_file' = IF Raised(outcome) THEN Some(0) ELSE outcome.value
         /\ pc' = "create_cache"

UploadFile ==
    /\ pc = "upload"
    /\ UNCHANGED aux_vars
    /\ UNCHANGED <<pdf_bytes, page_count, mode, cached_content, caches_created,
                   batches, batch_idx, acc, result, raised>>
    /\ \E outcome \in Answers("upload", UploadOutcomes) :
         /\ Hear("upload", outcome)
         /\ calls' = Append(calls, Call("upload", -1, 0, OkOrError(outcome)))
         /\ IF Raised(outcome)
            THEN Abort(Val(outcome.exc)) /\ UNCHANGED uploaded_file
            ELSE /\ uploaded_file' = outcome.value
                 /\ pc' = "create_cache"
                 /\ UNCHANGED pending

CreateOutcomes == {Raise(e) : e \in CreateErrors} \cup {Return(caches_created + 1)}

large_pdf_batches(n) == calculate_batches(n)
uncached_page_by_page(n) == BatchesFrom(1, n, 1)
uncached_batches(n) == calculate_batches(n)

CreateCache ==
    /\ pc = "create_cache"
    /\ UNCHANGED aux_vars
    /\ UNCHANGED <<pdf_bytes, page_count, uploaded_file, batch_idx, acc,
                   result, raised>>
    /\ \E outcome \in Answers("create_cache", CreateOutcomes) :
         /\ Hear("create_cache", outcome)
         /\ IF Raised(outcome)
            THEN /\ UNCHANGED <<cached_content, caches_created>>
                 /\ IF IsCacheIneligibleMessage(Val(outcome.exc).msg)
                    THEN /\ calls' = Append(calls, Call("create_cache", -1, 0, "ineligible"))
                         /\ mode' = "uncached"
                         /\ batches' = uncached_batches(Val(page_count))
                         /\ pc' = "nc_generate"
                         /\ UNCHANGED pending
                    ELSE /\ calls' = Append(calls, Call("create_cache", -1, 0, "error"))
                         /\ Abort(Val(outcome.exc))
                         /\ UNCHANGED <<mode, batches>>
            ELSE /\ calls' = Append(calls, Call("create_cache", -1, Val(outcome.value), "ok"))
                 /\ cached_content' = outcome.value
                 /\ caches_created' = caches_created + 1
                 /\ batches' = large_pdf_batches(Val(page_count))
                 /\ pc' = "generate"
                 /\ UNCHANGED <<mode, pending>>

(***************************************************************************)
(* The cached batch loop.  Accept is the loop body after the batch result  *)
(* is there (lines 316-318), and past the last batch the combination of    *)
(* the results into the returned value.  CatchesCacheExpired is the except *)
(* clause around the first attempt of a batch.                             *)
(***************************************************************************)
CatchesAnyException(e) == TRUE
CatchesNothing(e) == FALSE
CatchesCacheExpired(e) == e.type = "CacheExpiredError"

BatchOutcome(r) ==
    IF ~Raised(r) THEN "ok"
    ELSE IF Val(r.exc).type = "CacheExpiredError" THEN "expired"
    ELSE IF Val(r.exc).type = "ValueError" THEN "incomplete"
    ELSE "error"

AcceptSkippingABatch(batch_result, handler_pc, used_caching) ==
    LET a == Accumulate(acc, batches[batch_idx + 1], batch_result)
    IN  IF Raised(a)
        THEN /\ pending' = Some(IF used_caching THEN LargePdfHandler(Val(a.exc))
                                                 ELSE BatchedHandler(Val(a.exc)))
             /\ pc' = handler_pc
             /\ UNCHANGED <<acc, batch_idx>>
        ELSE /\ acc' = Val(a.value)
             /\ IF batch_idx + 1 = Len(batches)
                THEN /\ pending' = Some(CombinedResult(Val(a.value), Val(page_count),
                                                       used_caching))
                     /\ pc' = handler_pc
                     /\ UNCHANGED batch_idx
                ELSE /\ batch_idx' = Min(batch_idx + 2, Len(batches) - 1)
                     /\ pc' = IF used_caching THEN "generate" ELSE "nc_generate"
                     /\ UNCHANGED pending

Accept(batch_result, handler_pc, used_caching) ==
    LET a == Accumulate(acc, batches[batch_idx + 1], batch_result)
    IN  IF Raised(a)
        THEN /\ pending' = Some(IF used_caching THEN LargePdfHandler(Val(a.exc))
                                                 ELSE BatchedHandler(Val(a.exc)))
             /\ pc' = handler_pc
             /\ UNCHANGED <<acc, batch_idx>>
        ELSE /\ acc' = Val(a.value)
             /\ IF batch_idx + 1 = Len(batches)
                THEN /\ pending' = Some(CombinedResult(Val(a.value), Val(page_count),
                                                       used_caching))
                     /\ pc' = handler_pc
                     /\ UNCHANGED batch_idx
                ELSE /\ batch_idx' = batch_idx + 1
                     /\ pc' = IF used_caching THEN "generate" ELSE "nc_generate"
                     /\ UNCHANGED pending

GenerateBatch ==
    /\ pc = "generate"
    /\ UNCHANGED aux_vars
    /\ UNCHANGED <<pdf_bytes, page_count, mode, uploaded_file, cached_content,
                   caches_created, batches, result, raised>>
    /\ \E outcome \in Answers("generate", GenerateOutcomes) :
         /\ Hear("generate", outcome)
         /\ LET r == generate_batch_with_cache(outcome)
            IN  /\ calls' = Append(calls, Returning(Call("generate_cached", batch_idx,
                                       Val(cached_content), BatchOutcome(r)), r))
                /\ IF Raised(r)
                   THEN IF CatchesCacheExpired(Val(r.exc))
                        THEN /\ pc' = "recreate"
                             /\ UNCHANGED <<acc, batch_idx, pending>>
                        ELSE /\ Abort(Val(r.exc))
                             /\ UNCHANGED <<acc, batch_idx>>
                   ELSE Accept(Val(r.value), "finally_cache", TRUE)

RecreateCacheDiscardingResults ==
    /\ pc = "recreate"
    /\ UNCHANGED aux_vars
    /\ UNCHANGED <<pdf_bytes, page_count, mode, uploaded_file, batches,
                   batch_idx, result, raised>>
    /\ \E outcome \in Answers("create_cache", CreateOutcomes) :
         /\ Hear("create_cache", outcome)
         /\ IF Raised(outcome)
            THEN /\ calls' = Append(calls, Call("create_cache", batch_idx, 0,
                       IF IsCacheIneligibleMessage(Val(outcome.exc).msg)
                       THEN "ineligible" ELSE "error"))
                 /\ Abort(Val(outcome.exc))
                 /\ UNCHANGED <<cached_content, caches_created, acc>>
            ELSE /\ calls' = Append(calls, Call("create_cache", batch_idx,
                                                Val(outcome.value), "ok"))
                 /\ cached_content' = outcome.value
                 /\ caches_created' = caches_created + 1
                 /\ acc' = EmptyAcc
                 /\ pc' = "retry"
                 /\ UNCHANGED pending

RecreateCacheFallingBack ==
    /\ pc = "recreate"
    /\ UNCHANGED aux_vars
    /\ UNCHANGED <<pdf_bytes, page_count, uploaded_file, batches,
                   batch_idx, acc, result, raised>>
    /\ \E outcome \in Answers("create_cache", CreateOutcomes) :
         /\ Hear("create_cache", outcome)
         /\ IF Raised(outcome)
            THEN /\ UNCHANGED <<cached_content, caches_created>>
                 /\ IF IsCacheIneligibleMessage(Val(outcome.exc).msg)
                    THEN /\ calls' = Append(calls, Call("create_cache", batch_idx, 0,
                                                        "ineligible"))
                         /\ mode' = "uncached"
                         /\ pc' = "nc_generate"
                         /\ UNCHANGED pending
                    ELSE /\ calls' = Append(calls, Call("create_cache", batch_idx, 0,
                                                        "error"))
                         /\ Abort(Val(outcome.exc))
                         /\ UNCHANGED mode
            ELSE /\ calls' = Append(calls, Call("create_cache", batch_idx,
                                                Val(outcome.value), "ok"))
                 /\ cached_content' = outcome.value
                 /\ caches_created' = caches_created + 1
                 /\ pc' = "retry"
                 /\ UNCHANGED <<pending, mode>>

RecreateCacheKeepingOldHandle ==
    /\ pc = "recreate"
    /\ UNCHANGED aux_vars
    /\ UNCHANGED <<pdf_bytes, page_count, mode, uploaded_file, batches,
                   batch_idx, acc, result, raised, cached_content>>
    /\ \E outcome \in Answers("create_cache", CreateOutcomes) :
         /\ Hear("create_cache", outcome)
         /\ IF Raised(outcome)
            THEN /\ calls' = Append(calls, Call("create_cache", batch_idx, 0,
                       IF IsCacheIneligibleMessage(Val(outcome.exc).msg)
                       THEN "ineligible" ELSE "error"))
                 /\ Abort(Val(outcome.exc))
                 /\ UNCHANGED caches_created
            ELSE /\ calls' = Append(calls, Call("create_cache", batch_idx,
                                                Val(outcome.value), "ok"))
                 /\ caches_created' = caches_created + 1
                 /\ pc' = "retry"
                 /\ UNCHANGED pending

RecreateCache ==
    /\ pc = "recreate"
    /\ UNCHANGED aux_vars
    /\ UNCHANGED <<pdf_bytes, page_count, mode, uploaded_file, batches,
                   batch_idx, acc, result, raised>>
    /\ \E outcome \in Answers("create_cache", CreateOutcomes) :
         /\ Hear("create_cache", outcome)
         /\ IF Raised(outcome)
            THEN /\ calls' = Append(calls, Call("create_cache", batch_idx, 0,
                       IF IsCacheIneligibleMessage(Val(outcome.exc).msg)
                       THEN "ineligible" ELSE "error"))
                 /\ Abort(Val(outcome.exc))
                 /\ UNCHANGED <<cached_content, caches_created>>
            ELSE /\ calls' = Append(calls, Call("create_cache", batch_idx,
                                                Val(outcome.value), "ok"))
                 /\ cached_content' = outcome.value
                 /\ caches_created' = caches_created + 1
                 /\ pc' = "retry"
                 /\ UNCHANGED pending

RetryBatchUnbounded ==
    /\ pc = "retry"
    /\ UNCHANGED aux_vars
    /\ UNCHANGED <<pdf_bytes, page_count, mode, uploaded_file, cached_content,
                   caches_created, batches, result, raised>>
    /\ \E outcome \in Answers("generate", GenerateOutcomes) :
         /\ Hear("generate", outcome)
         /\ LET r == generate_batch_with_cache(outcome)
            IN  /\ calls' = Append(calls, Returning(Call("generate_cached", batch_idx,
                                       Val(cached_content), BatchOutcome(r)), r))
                /\ IF Raised(r)
                   THEN IF CatchesCacheExpired(Val(r.exc))
                        THEN /\ pc' = "recreate"
                             /\ UNCHANGED <<acc, batch_idx, pending>>
                        ELSE /\ Abort(Val(r.exc))
                             /\ UNCHANGED <<acc, batch_idx>>
                   ELSE Accept(Val(r.value), "finally_cache", TRUE)

RetryBatch ==
    /\ pc = "retry"
    /\ UNCHANGED aux_vars
    /\ UNCHANGED <<pdf_bytes, page_count, mode, uploaded_file, cached_content,
                   caches_created, batches, result, raised>>
    /\ \E outcome \in Answers("generate", GenerateOutcomes) :
         /\ Hear("generate", outcome)
         /\ LET r == generate_batch_with_cache(outcome)
            IN  /\ calls' = Append(calls, Returning(Call("generate_cached", batch_idx,
                                       Val(cached_content), BatchOutcome(r)), r))
                /\ IF Raised(r)
                   THEN /\ Abort(Val(r.exc))
                        /\ UNCHANGED <<acc, batch_idx>>
                   ELSE Accept(Val(r.value), "finally_cache", TRUE)

(***************************************************************************)
(* The finally clause of _extract_large_pdf: the cache, then the file;     *)
(* then the pending value is returned.  An exception leaving a delete      *)
(* call leaves the finally clause and replaces the pending value.          *)
(***************************************************************************)
Escape(e) ==
    /\ raised' = e
    /\ pending' = None
    /\ result' = None
    /\ pc' = "done"

FinallyCacheSkipped ==
    /\ pc = "finally_cache"
    /\ pc' = "finally_file"
    /\ UNCHANGED <<pdf_bytes, page_count, mode, uploaded_file, cached_content,
                   caches_created, batches, batch_idx, acc, pending, result,
                   raised, calls, aux_vars, twin_answers>>

FinallyCache ==
    /\ pc = "finally_cache"
    /\ UNCHANGED aux_vars
    /\ UNCHANGED <<pdf_bytes, page_count, mode, uploaded_file, cached_content,
                   caches_created, batches, batch_idx, acc>>
    /\ IF cached_content # None
       THEN \E outcome \in Answers("delete", DeleteOutcomes) :
              /\ Hear("delete", outcome)
              /\ calls' = Append(calls, Call("delete_cache", -1, Val(cached_content),
                                             OkOrError(outcome)))
              /\ IF delete_cache(outcome) # None
                 THEN Escape(delete_cache(outcome))
                 ELSE pc' = "finally_file" /\ UNCHANGED <<pending, result, raised>>
       ELSE /\ pc' = "finally_file"
            /\ UNCHANGED <<calls, pending, result, raised, twin_answers>>

FinallyFileUnconditional ==
    /\ pc = "finally_file"
    /\ UNCHANGED aux_vars
    /\ UNCHANGED <<pdf_bytes, page_count, mode, uploaded_file, cached_content,
                   caches_created, batches, batch_idx, acc, pending, raised>>
    /\ \E outcome \in Answers("delete", DeleteOutcomes) :
         /\ Hear("delete", outcome)
         /\ calls' = Append(calls, Call("delete_document", -1,
                                        IF uploaded_file # None THEN Val(uploaded_file)
                                        ELSE 0, OkOrError(outcome)))
         /\ result' = pending
         /\ pc' = "done"

FinallyFileSkipped ==
    /\ pc = "finally_file"
    /\ result' = pending
    /\ pc' = "done"
    /\ UNCHANGED <<pdf_bytes, page_count, mode, uploaded_file, cached_content,
                   caches_created, batches, batch_idx, acc, pending, raised,
                   calls, aux_vars, twin_answers>>

FinallyFile ==
    /\ pc = "finally_file"
    /\ UNCHANGED aux_vars
    /\ UNCHANGED <<pdf_bytes, page_count, mode, uploaded_file, cached_content,
                   caches_created, batches, batch_idx, acc>>
    /\ IF uploaded_file # None
       THEN \E outcome \in Answers("delete", DeleteOutcomes) :
              /\ Hear("delete", outcome)
              /\ calls' = Append(calls, Call("delete_document", -1, Val(uploaded_file),
                                             OkOrError(outcome)))
              /\ IF delete_file(outcome) # None
                 THEN Escape(delete_file(outcome))
                 ELSE /\ result' = pending
                      /\ pc' = "done"
                      /\ UNCHANGED <<pending, raised>>
       ELSE /\ result' = pending
            /\ pc' = "done"
            /\ UNCHANGED <<calls, pending, raised, twin_answers>>

(***************************************************************************)
(* _extract_batched_without_cache, called from the except clause of the    *)
(* initial cache creation; its return value is returned from inside the    *)
(* try block of _extract_large_pdf, so that finally clause runs after it.  *)
(***************************************************************************)
GenerateBatchUncachedRetrying ==
    /\ pc = "nc_generate"
    /\ UNCHANGED aux_vars
    /\ UNCHANGED <<pdf_bytes, page_count, mode, uploaded_file, cached_content,
                   caches_created, batches, result, raised>>
    /\ \E outcome \in Answers("generate", GenerateOutcomes) :
         /\ Hear("generate", outcome)
         /\ LET r == generate_batch_without_cache(outcome)
            IN  /\ calls' = Append(calls, Returning(Call("generate_uncached", batch_idx,
                                       Val(uploaded_file), BatchOutcome(r)), r))
                /\ IF Raised(r)
                   THEN /\ pc' = "nc_generate"
                        /\ UNCHANGED <<acc, batch_idx, pending>>
                   ELSE Accept(Val(r.value), "nc_finally", FALSE)

GenerateBatchUncached ==
    /\ pc = "nc_generate"
    /\ UNCHANGED aux_vars
    /\ UNCHANGED <<pdf_bytes, page_count, mode, uploaded_file, cached_content,
                   caches_created, batches, result, raised>>
    /\ \E outcome \in Answers("generate", GenerateOutcomes) :
         /\ Hear("generate", outcome)
         /\ LET r == generate_batch_without_cache(outcome)
            IN  /\ calls' = Append(calls, Returning(Call("generate_uncached", batch_idx,
                                       Val(uploaded_file), BatchOutcome(r)), r))
                /\ IF Raised(r)
                   THEN /\ pending' = Some(BatchedHandler(Val(r.exc)))
                        /\ pc' = "nc_finally"
                        /\ UNCHANGED <<acc, batch_idx>>
                   ELSE Accept(Val(r.value), "nc_finally", FALSE)

UncachedFinally ==
    /\ pc = "nc_finally"
    /\ UNCHANGED aux_vars
    /\ UNCHANGED <<pdf_bytes, page_count, mode, uploaded_file, cached_content,
                   caches_created, batches, batch_idx, acc, result, raised>>
    /\ IF uploaded_file # None
       THEN \E outcome \in Answers("delete", DeleteOutcomes) :
              /\ Hear("delete", outcome)
              /\ calls' = Append(calls, Call("delete_document", -1, Val(uploaded_file),
                                             OkOrError(outcome)))
              /\ IF delete_file(outcome) # None
                 THEN Abort(Val(delete_file(outcome)))
                 ELSE pc' = "finally_cache" /\ UNCHANGED pending
       ELSE /\ pc' = "finally_cache"
            /\ UNCHANGED <<calls, pending, twin_answers>>

Next ==
    \/ ExtractText
    \/ DirectExtract
    \/ UploadFile
    \/ CreateCache
    \/ GenerateBatch
    \/ RecreateCache
    \/ RetryBatch
    \/ GenerateBatchUncached
    \/ UncachedFinally
    \/ FinallyCache
    \/ FinallyFile

Spec == Init /\ [][Next]_vars

(***************************************************************************)
(* _calculate_batches on its own, for every page count and batch size in   *)
(* the bounds.                                                             *)
(***************************************************************************)
(***************************************************************************)
(* A second extract_text call on the same extractor with the same bytes.   *)
(* Everything a call works on is a local of that call (uploaded_file and   *)
(* cached_content start as None, the accumulator empty); the extractor     *)
(* keeps nothing from one call to the next.                                *)
(***************************************************************************)
FirstCall == [result |-> result, raised |-> raised, calls |-> calls]

SecondCallKeepingHandles ==
    /\ twin_run = 1
    /\ pc = "done"
    /\ twin_first' = Some(FirstCall)
    /\ twin_run' = 2
    /\ pc' = "start"
    /\ page_count' = None
    /\ mode' = "none"
    /\ batches' = <<>>
    /\ batch_idx' = 0
    /\ acc' = EmptyAcc
    /\ pending' = None
    /\ result' = None
    /\ raised' = None
    /\ calls' = <<>>
    /\ UNCHANGED <<pdf_bytes, uploaded_file, cached_content, caches_created,
                   twin_answers, plan_vars, cls_vars, ctor_vars>>

SecondCall ==
    /\ twin_run = 1
    /\ pc = "done"
    /\ twin_first' = Some(FirstCall)
    /\ twin_run' = 2
    /\ pc' = "start"
    /\ page_count' = None
    /\ mode' = "none"
    /\ uploaded_file' = None
    /\ cached_content' = None
    /\ caches_created' = 0
    /\ batches' = <<>>
    /\ batch_idx' = 0
    /\ acc' = EmptyAcc
    /\ pending' = None
    /\ result' = None
    /\ raised' = None
    /\ calls' = <<>>
    /\ UNCHANGED <<pdf_bytes, twin_answers, plan_vars, cls_vars, ctor_vars>>

TwinInit ==
    /\ \E input \in Inputs : OrchInit(input)
    /\ PlanIdle
    /\ ClassifyIdle
    /\ ConstructIdle
    /\ twin_run = 1
    /\ twin_first = None
    /\ twin_answers = <<>>

TwinNext ==
    \/ ExtractText
    \/ DirectExtract
    \/ UploadFile
    \/ CreateCache
    \/ GenerateBatch
    \/ RecreateCache
    \/ RetryBatch
    \/ GenerateBatchUncached
    \/ UncachedFinally
    \/ FinallyCache
    \/ FinallyFile
    \/ SecondCall

TwinSpec == TwinInit /\ [][TwinNext]_vars

(***************************************************************************)
(* The same program under the assumption that every remote call returns    *)
(* or fails: a step that can be taken is eventually taken.                 *)
(***************************************************************************)
LiveSpec == Init /\ [][Next]_vars /\ WF_vars(Next)

PlanInit ==
    /\ OrchInit("")
    /\ plan_pc = "call"
    /\ plan_page_count \in 0..MaxPlanPages
    /\ plan_batch_size \in 1..MaxBatchSize
    /\ plan_batches = <<>>
    /\ ClassifyIdle
    /\ ConstructIdle
    /\ TwinIdle

CalculateBatches ==
    /\ plan_pc = "call"
    /\ plan_batches' = BatchesFrom(1, plan_page_count, plan_batch_size)
    /\ plan_pc' = "done"
    /\ UNCHANGED <<orch_vars, cls_vars, ctor_vars, twin_vars, plan_page_count, plan_batch_size>>

PlanNext == CalculateBatches

PlanSpec == PlanInit /\ [][PlanNext]_vars

(***************************************************************************)
(* Vocabulary of the properties.                                           *)
(***************************************************************************)
Idx(op) == {i \in DOMAIN calls : calls[i].op = op}
Count(op) == Cardinality(Idx(op))
Done == pc = "done"
Batched == mode \in {"cached", "uncached"}
Gens(k) == {i \in Idx("generate_cached") : calls[i].idx = k}
Recreations(k) == {i \in Idx("create_cache") : calls[i].idx = k}
FirstOf(S) == CHOOSE i \in S : \A j \in S : i <= j
LastOf(S) == CHOOSE i \in S : \A j \in S : j <= i
ExpiredFirst(k) == Gens(k) # {} /\ calls[FirstOf(Gens(k))].outcome = "expired"
FellBack ==
    \E i \in Idx("create_cache") : calls[i].idx = -1 /\ calls[i].outcome = "ineligible"
Failed(r) == r # None /\ ~Val(r).success /\ Val(r).error # None /\ Val(r).error # Some("")

(***************************************************************************)
(* C1 as stated: on the batched path delete_cache and delete_document are  *)
(* each invoked exactly once before the call returns.                      *)
(***************************************************************************)
C1_ExactlyOnceEach ==
    (Done /\ Batched) => (Count("delete_cache") = 1 /\ Count("delete_document") = 1)

(***************************************************************************)
(* C1 amended: on the batched path delete_cache is invoked exactly once    *)
(* when a cache was created and never otherwise; delete_document is never  *)
(* invoked when the upload failed, exactly once when the upload succeeded  *)
(* and the run stayed in cached mode, and at least once when the run fell  *)
(* back to uncached mode.                                                  *)
(***************************************************************************)
C1_CleanupOfWhatIsHeld ==
    (Done /\ Batched) =>
        /\ Count("delete_cache") = (IF caches_created >= 1 THEN 1 ELSE 0)
        /\ uploaded_file = None => Count("delete_document") = 0
        /\ (uploaded_file # None /\ ~FellBack) => Count("delete_document") = 1
        /\ (uploaded_file # None /\ FellBack) => Count("delete_document") >= 1

C1_Witness ==
    /\ Done
    /\ \E i \in Idx("create_cache") : calls[i].idx = -1 /\ calls[i].outcome = "error"
    /\ Count("delete_cache") = 0
    /\ Count("delete_document") = 1

(***************************************************************************)
(* C2 as stated: when the first generate call of batch k raises            *)
(* CacheExpired there is exactly one recreation and exactly one further    *)
(* generate call for batch k; a second CacheExpired ends the run with      *)
(* success = false and no further create_cache or generate call.           *)
(***************************************************************************)
NoCallAfter(i) ==
    \A j \in DOMAIN calls :
        j > i => calls[j].op \notin {"create_cache", "generate_cached", "generate_uncached"}

C2_OneRecreationOneRetry ==
    Done => \A k \in 0..(Len(batches) - 1) :
        ExpiredFirst(k) =>
            /\ Cardinality(Recreations(k)) = 1
            /\ Cardinality(Gens(k)) = 2
            /\ calls[LastOf(Gens(k))].outcome = "expired" =>
                   (Failed(result) /\ NoCallAfter(LastOf(Gens(k))))

(***************************************************************************)
(* C2 amended: when the first generate call of batch k raises CacheExpired *)
(* there is exactly one recreation; if it succeeds there is exactly one    *)
(* further generate call for batch k, and if it fails there is none and    *)
(* the run ends with success = false; a second CacheExpired ends the run   *)
(* with success = false and no further create_cache or generate call.      *)
(***************************************************************************)
C2_OneRecreationThenOneRetry ==
    Done => \A k \in 0..(Len(batches) - 1) :
        ExpiredFirst(k) =>
            /\ Cardinality(Recreations(k)) = 1
            /\ \A c \in Recreations(k) :
                   IF calls[c].outcome = "ok"
                   THEN /\ Cardinality(Gens(k)) = 2
                        /\ calls[LastOf(Gens(k))].outcome = "expired" =>
                               (Failed(result) /\ NoCallAfter(LastOf(Gens(k))))
                   ELSE /\ Cardinality(Gens(k)) = 1
                        /\ Failed(result)
                        /\ NoCallAfter(c)

C2_Witness ==
    /\ Done
    /\ \E k \in 0..(Len(batches) - 1) :
           /\ ExpiredFirst(k)
           /\ Cardinality(Gens(k)) = 2
           /\ calls[LastOf(Gens(k))].outcome = "expired"
    /\ Failed(result)

(***************************************************************************)
(* C3: a document of at most 5 pages gets exactly one whole-document       *)
(* generate call and no other remote call; a document of more than 5 pages *)
(* always gets an upload call and no whole-document call.                  *)
(***************************************************************************)
C3_StrategyByPageCount ==
    (Done /\ page_count # None) =>
        IF Val(page_count) <= 5
        THEN Count("generate_direct") = 1 /\ Len(calls) = 1
        ELSE Count("upload") = 1 /\ Count("generate_direct") = 0

C3_Witness ==
    /\ Done
    /\ page_count = Some(5)
    /\ Count("generate_direct") = 1
    /\ Count("upload") = 0

(***************************************************************************)
(* C4 as stated: every input that does not start with %PDF-, the empty     *)
(* one included, is answered with success = false and an error mentioning  *)
(* "not a valid", without a probe or a remote call.                        *)
(***************************************************************************)
NotProbedNoCall == page_count = None /\ calls = <<>>

C4_InvalidMentionsNotAValid ==
    (Done /\ ~StartsWith(pdf_bytes, "%PDF-")) =>
        /\ Failed(result)
        /\ Contains(Val(Val(result).error), "not a valid")
        /\ NotProbedNoCall

(***************************************************************************)
(* C4 amended: every input that does not start with %PDF- is answered with *)
(* success = false without a probe or a remote call; the error mentions    *)
(* "not a valid" when the input is not empty and is "File is empty" when   *)
(* it is empty.                                                            *)
(***************************************************************************)
C4_InvalidRejectedBeforeAnyCall ==
    (Done /\ ~StartsWith(pdf_bytes, "%PDF-")) =>
        /\ Failed(result)
        /\ NotProbedNoCall
        /\ IF pdf_bytes = ""
           THEN Val(result).error = Some("File is empty")
           ELSE Contains(Val(Val(result).error), "not a valid")

C4_Witness ==
    /\ Done
    /\ pdf_bytes = "x%PDF-1.4"
    /\ Failed(result)
    /\ Contains(Val(Val(result).error), "not a valid")
    /\ calls = <<>>

(***************************************************************************)
(* C5: for page_count >= 1 and batch_size >= 1 the batches are ordered,    *)
(* start at 1, follow each other without gap or overlap, end at            *)
(* page_count; all but the last have batch_size pages and the last has 1   *)
(* to batch_size pages; page_count = batch_size gives one batch, and 11    *)
(* pages by 2 give 6 batches ending in (11, 11).                           *)
(***************************************************************************)
Size(b) == b[2] - b[1] + 1

C5_BatchesPartitionPages ==
    (plan_pc = "done" /\ plan_page_count >= 1) =>
        LET b == plan_batches
            n == Len(plan_batches)
        IN  /\ n >= 1
            /\ b[1][1] = 1
            /\ b[n][2] = plan_page_count
            /\ \A i \in 1..n : b[i][1] <= b[i][2]
            /\ \A i \in 1..(n - 1) :
                   b[i + 1][1] = b[i][2] + 1 /\ Size(b[i]) = plan_batch_size
            /\ Size(b[n]) \in 1..plan_batch_size
            /\ plan_page_count = plan_batch_size => n = 1
            /\ (plan_page_count = 11 /\ plan_batch_size = 2) =>
                   (n = 6 /\ b[6] = <<11, 11>>)

C5_Witness ==
    /\ plan_pc = "done"
    /\ plan_page_count = 11
    /\ plan_batch_size = 2
    /\ plan_batches = <<<<1, 2>>, <<3, 4>>, <<5, 6>>, <<7, 8>>, <<9, 10>>, <<11, 11>>>>

(***************************************************************************)
(* C6: a returned result with success = true has a non-empty text and no   *)
(* error; one with success = false has no text and has an error.           *)
(***************************************************************************)
C6_ResultInvariant ==
    (Done /\ result # None) =>
        LET r == Val(result)
        IN  /\ r.success => (r.text # None /\ Val(r.text) # "" /\ r.error = None)
            /\ ~r.success => (r.text = None /\ r.error # None)

C6_Witness ==
    /\ Done
    /\ mode = "cached"
    /\ result # None
    /\ Val(result).success
    /\ \A i \in DOMAIN acc.results : acc.results[i].text = ""
    /\ Val(result).text # Some("")

(***************************************************************************)
(* C7 as stated: no failure of a remote call leaves extract_text as an     *)
(* exception, and every failure of upload, create_cache, generate,         *)
(* delete_cache or delete_document ends in a returned result with          *)
(* success = false and a non-empty error.                                  *)
(***************************************************************************)
CallFailed(i) == calls[i].outcome \in {"error", "expired", "ineligible"}

C7_EveryFailureFailsTheResult ==
    Done => /\ raised = None
            /\ (\E i \in DOMAIN calls : CallFailed(i)) => Failed(result)

(***************************************************************************)
(* C7 amended: no failure of a remote call leaves extract_text as an       *)
(* exception and a result is always returned; every failure of upload, of  *)
(* create_cache other than the initial creation refused as ineligible, and *)
(* of generate other than a first CacheExpired of a batch, ends in a       *)
(* result with success = false and a non-empty error; a failure of         *)
(* delete_cache or delete_document is swallowed and the result stands.     *)
(***************************************************************************)
Recovered(i) ==
    \/ calls[i].op \in {"delete_cache", "delete_document"}
    \/ calls[i].op = "create_cache" /\ calls[i].idx = -1 /\ calls[i].outcome = "ineligible"
    \/ /\ calls[i].op = "generate_cached"
       /\ calls[i].outcome = "expired"
       /\ i = FirstOf(Gens(calls[i].idx))

C7_NoFailureEscapes ==
    Done => /\ raised = None
            /\ result # None
            /\ (\E i \in DOMAIN calls : CallFailed(i) /\ ~Recovered(i)) => Failed(result)

C7_Witness ==
    /\ Done
    /\ raised = None
    /\ \E i \in Idx("generate_cached") : calls[i].outcome = "error"
    /\ \E i \in Idx("delete_cache") : calls[i].outcome = "error"
    /\ \E i \in Idx("delete_document") : calls[i].outcome = "error"
    /\ Failed(result)

(***************************************************************************)
(* C8: when the initial create_cache is refused as ineligible, the run     *)
(* makes uncached generate calls over the batches cached mode would use,   *)
(* in the same order, deletes the document after them and never calls      *)
(* delete_cache.                                                           *)
(***************************************************************************)
UncachedNth(i) == Cardinality({j \in Idx("generate_uncached") : j <= i})

C8_FallbackSamePlan ==
    (Done /\ FellBack) =>
        LET plan == large_pdf_batches(Val(page_count))
        IN  /\ Count("generate_cached") = 0
            /\ Count("generate_uncached") >= 1
            /\ \A i \in Idx("generate_uncached") :
                   /\ UncachedNth(i) <= Len(plan)
                   /\ calls[i].batch = plan[UncachedNth(i)]
            /\ (result # None /\ Val(result).success) =>
                   Count("generate_uncached") = Len(plan)
            /\ \E d \in Idx("delete_document") :
                   \A i \in Idx("generate_uncached") : i < d
            /\ Count("delete_cache") = 0

C8_Witness ==
    /\ Done
    /\ FellBack
    /\ page_count = Some(6)
    /\ Count("generate_uncached") = 3
    /\ Count("delete_cache") = 0
    /\ Count("delete_document") >= 1
    /\ result # None /\ Val(result).success

(***************************************************************************)
(* C9: on the batched path, whatever the outcome, every held handle has    *)
(* been passed to its delete call when extract_text returns, and           *)
(* delete_cache comes before delete_document.                              *)
(***************************************************************************)
C9_CleanupBeforeReturn ==
    (Done /\ Batched) =>
        /\ cached_content # None =>
               \E i \in Idx("delete_cache") : calls[i].handle = Val(cached_content)
        /\ uploaded_file # None =>
               \E i \in Idx("delete_document") : calls[i].handle = Val(uploaded_file)
        /\ \A i \in Idx("delete_cache"), j \in Idx("delete_document") : i < j

C9_Witness ==
    /\ Done
    /\ Failed(result)
    /\ Contains(Val(Val(result).error), "Extraction failed: TypeError")
    /\ cached_content # None /\ uploaded_file # None
    /\ Count("delete_cache") = 1
    /\ Count("delete_document") = 1

(***************************************************************************)
(* C10: used_caching is true only in a successful result of a run that     *)
(* created a cache, never fell back and had every batch accepted in cached *)
(* mode; the direct path, the fallback and every failed run give false.    *)
(***************************************************************************)
C10_UsedCachingOnlyOnCachedSuccess ==
    (Done /\ result # None) =>
        /\ Val(result).used_caching =>
               /\ Val(result).success
               /\ mode = "cached"
               /\ \E i \in Idx("create_cache") : calls[i].outcome = "ok"
               /\ ~FellBack
               /\ Count("generate_uncached") = 0
               /\ \A k \in 0..(Len(batches) - 1) :
                      \E i \in Gens(k) : calls[i].outcome = "ok"
        /\ (mode \in {"none", "direct", "uncached"} \/ FellBack \/ ~Val(result).success) =>
               ~Val(result).used_caching

C10_Witness ==
    /\ Done
    /\ result # None
    /\ Val(result).used_caching
    /\ Val(result).success
    /\ Count("create_cache") = 2

(***************************************************************************)
(* C11: whenever the probe succeeded, the returned result carries the      *)
(* probed page count, on every terminal path.                              *)
(***************************************************************************)
C11_PageCountPopulated ==
    (Done /\ page_count # None /\ result # None) =>
        Val(result).page_count = page_count

(***************************************************************************)
(* C12: when a batch fails fatally after earlier batches were accepted,    *)
(* the returned result is a failure with no text and no token counts.      *)
(***************************************************************************)
Generates == Idx("generate_cached") \cup Idx("generate_uncached")

C12_PartialResultsDiscarded ==
    (Done /\ Batched /\ Generates # {} /\ Len(acc.results) < Len(batches)) =>
        /\ Failed(result)
        /\ Val(result).text = None
        /\ Val(result).prompt_tokens = None
        /\ Val(result).completion_tokens = None
        /\ Val(result).total_tokens = None

C12_Witness ==
    /\ Done
    /\ mode = "cached"
    /\ Len(acc.results) = 2
    /\ acc.total_prompt_tokens > 0
    /\ acc.results[1].text # ""
    /\ calls[LastOf(Generates)].outcome = "incomplete"
    /\ Failed(result)
    /\ Val(result).text = None

(***************************************************************************)
(* Construction of an extractor of either class, then the first            *)
(* extract_text call on the object, which needs the object to exist.       *)
(***************************************************************************)
ExtractorClasses == {"GeminiPDFExtractor", "GeminiCachedExtractor"}
ApiKeys == {None, Some(""), Some(" "), Some("k"), Some("AIza-key")}
ModelNames == {None, Some(""), Some("gemini-2.5-pro")}
EnvModelNames == {None, Some("gemini-2.0-flash")}

ConstructorArgs ==
    [class : ExtractorClasses, api_key : ApiKeys,
     model_name : ModelNames, env_model : EnvModelNames]

ConstructInit ==
    /\ OrchInit("")
    /\ PlanIdle
    /\ ClassifyIdle
    /\ TwinIdle
    /\ ctor_pc = "new"
    /\ ctor_args \in {Some(a) : a \in ConstructorArgs}
    /\ ctor_result = None

Construct ==
    /\ ctor_pc = "new"
    /\ LET a == Val(ctor_args)
       IN  ctor_result' = Some(init_extractor(a.class, a.api_key, a.model_name,
                                              a.env_model))
    /\ ctor_pc' = IF Raised(Val(ctor_result')) THEN "failed" ELSE "constructed"
    /\ UNCHANGED <<orch_vars, plan_vars, cls_vars, twin_vars, ctor_args>>

CallExtractText ==
    /\ ctor_pc = "constructed"
    /\ ctor_pc' = "called"
    /\ UNCHANGED <<orch_vars, plan_vars, cls_vars, twin_vars, ctor_args, ctor_result>>

ConstructNext == Construct \/ CallExtractText

ConstructSpec == ConstructInit /\ [][ConstructNext]_vars

(***************************************************************************)
(* One response handed to both batch generators: every stop reason, with   *)
(* and without candidates, text and usage, and the transport errors.       *)
(***************************************************************************)
ValidPdf == "%PDF-1.4 fake pdf"

AllResponses ==
    [candidates : {<<>>} \cup {<<[finish_reason |-> f]>> : f \in FinishReasons},
     text : {None, Some(""), Some("| a |")},
     usage_metadata : Usages]

ClassifyOutcomes == {Raise(e) : e \in TransportErrors} \cup {Return(r) : r \in AllResponses}

ClassifyInit ==
    /\ OrchInit("")
    /\ PlanIdle
    /\ ConstructIdle
    /\ TwinIdle
    /\ cls_pc = "call"
    /\ cls_outcome \in ClassifyOutcomes
    /\ cls_cached = None
    /\ cls_uncached = None
    /\ cls_direct = None

ClassifyBatch ==
    /\ cls_pc = "call"
    /\ cls_cached' = Some(generate_batch_with_cache(cls_outcome))
    /\ cls_uncached' = Some(generate_batch_without_cache(cls_outcome))
    /\ cls_direct' = Some(simple_extract_text(ValidPdf, cls_outcome))
    /\ cls_pc' = "done"
    /\ UNCHANGED <<orch_vars, plan_vars, ctor_vars, twin_vars, cls_outcome>>

ClassifyNext == ClassifyBatch

ClassifySpec == ClassifyInit /\ [][ClassifyNext]_vars

(***************************************************************************)
(* The accepted outcome of batch k (0-based): what the last generate call  *)
(* issued for that batch returned.                                         *)
(***************************************************************************)
GensOfBatch(k) == {i \in Generates : calls[i].idx = k}
AcceptedCall(k) == calls[LastOf(GensOfBatch(k))]
AcceptedOf(k) == Val(AcceptedCall(k).returned)

Label(b) == "## Pages " \o ToString(b[1]) \o "-" \o ToString(b[2])

RECURSIVE ExpectedText(_, _)
ExpectedText(plan, k) ==
    IF k > Len(plan) THEN ""
    ELSE Label(plan[k]) \o "\n" \o AcceptedOf(k - 1).text
         \o (IF k < Len(plan) THEN "\n\n" ELSE "")
         \o ExpectedText(plan, k + 1)

BatchedSuccess == Done /\ Batched /\ result # None /\ Val(result).success

(***************************************************************************)
(* C13: on batched success the composite text is one section per planned   *)
(* batch and no other, in ascending page order, each section being the     *)
(* label "## Pages <start>-<end>", a newline and the text accepted for     *)
(* that batch, with a blank line between sections; also when a batch was   *)
(* retried after a cache expiry.                                           *)
(***************************************************************************)
C13_CompositeTextInPageOrder ==
    BatchedSuccess =>
        LET plan == calculate_batches(Val(page_count))
        IN  /\ \A k \in 1..Len(plan) : GensOfBatch(k - 1) # {}
            /\ Val(result).text = Some(ExpectedText(plan, 1))

C13_Witness ==
    /\ BatchedSuccess /\ mode = "cached" /\ page_count = Some(6)
    /\ Count("create_cache") = 2 /\ ExpiredFirst(1)
    /\ Val(result).text
         = Some("## Pages 1-2\n| a |\n\n## Pages 3-4\n\n\n## Pages 5-6\n| a |")

RECURSIVE SumAccepted(_, _)
SumAccepted(field, n) ==
    IF n = 0 THEN 0
    ELSE Val(AcceptedOf(n - 1)[field]) + SumAccepted(field, n - 1)

(***************************************************************************)
(* C14: on batched success, cached or fallback, prompt_tokens is the sum   *)
(* of the prompt tokens of the accepted outcome of every batch,            *)
(* completion_tokens the sum of their completion tokens, and total_tokens  *)
(* their sum; an attempt that ended in a cache expiry adds nothing.        *)
(***************************************************************************)
C14_TokenCountsAreSums ==
    BatchedSuccess =>
        LET n == Len(calculate_batches(Val(page_count)))
            p == SumAccepted("prompt_tokens", n)
            c == SumAccepted("completion_tokens", n)
        IN  /\ Val(result).prompt_tokens = Some(p)
            /\ Val(result).completion_tokens = Some(c)
            /\ Val(result).total_tokens = Some(p + c)
            /\ \A i \in Generates : calls[i].outcome = "expired" => calls[i].returned = None

C14_Witness ==
    /\ BatchedSuccess /\ page_count = Some(6) /\ ExpiredFirst(0)
    /\ Val(AcceptedOf(1).prompt_tokens) = 0
    /\ Val(result).prompt_tokens = Some(200)
    /\ Val(result).completion_tokens = Some(100)
    /\ Val(result).total_tokens = Some(300)

InCleanup == pc \in {"nc_finally", "finally_cache", "finally_file"}

CleanupFailed(op) == \E i \in Idx(op) : calls[i].outcome = "error"

(***************************************************************************)
(* C15: a failing delete_cache or delete_document never changes the        *)
(* returned result: the value pending when cleanup starts stays pending    *)
(* through every cleanup step, whatever the delete calls do, and is the    *)
(* value returned; and after a failed delete_cache the held document is    *)
(* still passed to delete_document.                                        *)
(***************************************************************************)
C15_CleanupNeverChangesResult ==
    /\ [][InCleanup => /\ pending' = pending
                       /\ raised' = None
                       /\ pc' = "done" => result' = pending]_vars
    /\ [](\A i \in Idx("delete_cache") :
            (Done /\ calls[i].outcome = "error" /\ uploaded_file # None) =>
                \E j \in Idx("delete_document") : j > i)

C15_Witness ==
    /\ BatchedSuccess /\ mode = "cached"
    /\ CleanupFailed("delete_cache") /\ CleanupFailed("delete_document")
    /\ result = pending /\ Val(result).text # Some("")

(***************************************************************************)
(* C16: every cache handle created during the call, the initial one and    *)
(* each one created by a recreation after a cache expiry, has been passed  *)
(* to delete_cache when the call returns.                                  *)
(***************************************************************************)
C16_EveryCreatedCacheDeleted ==
    Done => \A i \in Idx("create_cache") :
                calls[i].outcome = "ok" =>
                    \E j \in Idx("delete_cache") :
                        j > i /\ calls[j].handle = calls[i].handle

InitialCreateFailed ==
    \E i \in Idx("create_cache") : calls[i].idx = -1 /\ calls[i].outcome = "error"

ProbeHasFailed == Done /\ validate_pdf_bytes(pdf_bytes).is_valid /\ page_count = None

(***************************************************************************)
(* C18: when probing the page count fails, the result is a failure whose   *)
(* error says "Failed to read PDF", and no remote call of any kind         *)
(* (generate, upload, create_cache, delete_cache, delete_document) is      *)
(* made in that run; no call is ever made without a probed page count.     *)
(***************************************************************************)
C18_ProbeFailureMakesNoCall ==
    /\ page_count = None => calls = <<>>
    /\ ProbeHasFailed =>
          /\ Failed(result)
          /\ StartsWith(Val(Val(result).error), "Failed to read PDF")
          /\ Val(result).text = None

C18_Witness ==
    /\ ProbeHasFailed /\ calls = <<>>
    /\ result = Some(Failure("Failed to read PDF: Corrupt PDF"))

Accepted(i) ==
    /\ calls[i].returned # None
    /\ Val(calls[i].returned).prompt_tokens # None
    /\ Val(calls[i].returned).completion_tokens # None

NoExpiry == \A i \in Generates : calls[i].outcome # "expired"

(***************************************************************************)
(* C19: batches are processed one after the other in ascending page        *)
(* order: generate calls follow the plan's order, the generate call for    *)
(* batch k+1 is issued only after a generate call for batch k returned an  *)
(* accepted outcome, and a successful run without cache expiry makes as    *)
(* many generate calls as there are planned batches (3 for 6 pages).       *)
(***************************************************************************)
C19_BatchesSequentialAscending ==
    LET generates == Generates
        plan == calculate_batches(Val(page_count))
    IN  /\ \A i \in generates : \A j \in generates :
              i < j => /\ calls[i].idx <= calls[j].idx
                       /\ calls[i].batch[1] <= calls[j].batch[1]
        /\ \A j \in generates :
              /\ calls[j].batch = plan[calls[j].idx + 1]
              /\ calls[j].idx > 0 =>
                    \E i \in generates :
                        calls[i].idx = calls[j].idx - 1 /\ i < j /\ Accepted(i)
        /\ (BatchedSuccess /\ NoExpiry) =>
              /\ Cardinality(generates) = Len(plan)
              /\ page_count = Some(6) => Cardinality(generates) = 3

C19_Witness ==
    /\ BatchedSuccess /\ NoExpiry /\ page_count = Some(6)
    /\ Cardinality(Generates) = 3
    /\ \A k \in 0..2 : calls[LastOf(Generates) - 2 + k].idx = k

Classified == cls_pc = "done"

(***************************************************************************)
(* C20: cached mode and uncached mode classify a batch response alike:     *)
(* for every stop reason and every presence or absence of candidates,      *)
(* text and usage, _generate_batch_with_cache fails exactly when           *)
(* _generate_batch_without_cache fails, on a response with the same        *)
(* exception, and when both succeed they return the same text,             *)
(* prompt_tokens and completion_tokens.                                    *)
(***************************************************************************)
C20_SameClassificationInBothModes ==
    Classified =>
        LET c == Val(cls_cached)
            u == Val(cls_uncached)
        IN  /\ Raised(c) <=> Raised(u)
            /\ (~Raised(cls_outcome) /\ Raised(c)) => c.exc = u.exc
            /\ ~Raised(c) =>
                  /\ Val(c.value).text = Val(u.value).text
                  /\ Val(c.value).prompt_tokens = Val(u.value).prompt_tokens
                  /\ Val(c.value).completion_tokens = Val(u.value).completion_tokens

C20_Witness ==
    /\ Classified /\ ~Raised(cls_outcome)
    /\ Val(cls_outcome.value).candidates = <<[finish_reason |-> Some("SAFETY")]>>
    /\ Val(cls_outcome.value).text = Some("| a |")
    /\ Val(cls_cached) = Raise(Exc("ValueError", "Response incomplete: SAFETY"))
    /\ Val(cls_uncached) = Val(cls_cached)

AbnormalStops == {Val(f) : f \in FinishReasons \ {None}} \ NormalStops

ClsResponse == Val(cls_outcome.value)
ClsHasCandidate == ~Raised(cls_outcome) /\ ClsResponse.candidates # <<>>
ClsStop == ClsResponse.candidates[1].finish_reason
ClsAbnormal == ClsHasCandidate /\ ClsStop # None /\ Val(ClsStop) \in AbnormalStops
ClsNormal == ClsHasCandidate /\ (ClsStop = None \/ Val(ClsStop) \in NormalStops)
ClsHasText == ClsResponse.text # None /\ Val(ClsResponse.text) # ""

(***************************************************************************)
(* C21: classification by stop reason.  A normal stop (STOP or             *)
(* unspecified) with text is a success carrying that text; every abnormal  *)
(* stop (MAX_TOKENS, SAFETY, RECITATION, OTHER, any other) is a failure,   *)
(* on the direct path and of a batch, whose message is the message of no   *)
(* other abnormal stop; a response without candidates is a "No response"   *)
(* failure on the direct path.                                             *)
(***************************************************************************)
C21_ClassifiedByStopReason ==
    Classified =>
        /\ (ClsNormal /\ ClsHasText) =>
              /\ Val(cls_direct).success
              /\ Val(cls_direct).text = ClsResponse.text
              /\ ~Raised(Val(cls_cached))
        /\ ClsAbnormal =>
              /\ Failed(cls_direct)
              /\ Val(cls_direct).text = None
              /\ Raised(Val(cls_cached))
              /\ \A g \in AbnormalStops \ {Val(ClsStop)} :
                    /\ Val(cls_direct).error # Some(ReasonMessage(g))
                    /\ Val(Val(cls_cached).exc).msg # "Response incomplete: " \o g
        /\ (~Raised(cls_outcome) /\ ~ClsHasCandidate) =>
              /\ Failed(cls_direct)
              /\ Contains(Val(Val(cls_direct).error), "No response")

C21_Witness ==
    /\ Classified /\ ClsAbnormal /\ ClsHasText
    /\ ClsStop = Some("RECITATION")
    /\ cls_direct = Some(Failure("Response was blocked due to recitation concerns"))
    /\ Val(cls_cached) = Raise(Exc("ValueError", "Response incomplete: RECITATION"))

LastGenerateReturned ==
    Generates # {} /\ calls[LastOf(Generates)].returned # None

(***************************************************************************)
(* C22: absence of token usage is never a failure: a batch whose response  *)
(* is otherwise successful is accepted whatever its usage data (none, or   *)
(* a missing prompt or completion count) and adds zero for what is         *)
(* missing, so a batched run whose last generate call returned a batch     *)
(* result ends in success.                                                 *)
(***************************************************************************)
C22_MissingUsageNeverFails ==
    (Done /\ Batched /\ LastGenerateReturned) =>
        /\ result # None
        /\ Val(result).success
        /\ Val(result).prompt_tokens # None
        /\ Val(result).completion_tokens # None

(***************************************************************************)
(* C23: in both batched modes a generate call carries is_first_batch =     *)
(* true exactly when its batch is the first of the plan, the one starting  *)
(* at page 1, and false for every later batch; the retry of a batch after  *)
(* a cache recreation carries the value of the first attempt.              *)
(***************************************************************************)
C23_FirstBatchFlag ==
    LET generates == Generates
        plan == calculate_batches(Val(page_count))
    IN  \A i \in generates :
            /\ calls[i].is_first_batch <=> calls[i].batch = plan[1]
            /\ calls[i].is_first_batch <=> calls[i].batch[1] = 1
            /\ \A j \in generates :
                  calls[j].idx = calls[i].idx =>
                      calls[j].is_first_batch = calls[i].is_first_batch

C23_Witness ==
    /\ Done /\ mode = "cached" /\ ExpiredFirst(0) /\ ExpiredFirst(1)
    /\ Cardinality(GensOfBatch(0)) = 2 /\ Cardinality(GensOfBatch(1)) = 2
    /\ \A i \in GensOfBatch(0) : calls[i].is_first_batch
    /\ \A i \in GensOfBatch(1) : ~calls[i].is_first_batch
    /\ \E i \in Idx("generate_uncached") \cup Generates : calls[i].batch[1] = 3

SecondExpiry(k) ==
    /\ Cardinality(Gens(k)) = 2
    /\ \A i \in Gens(k) : calls[i].outcome = "expired"

(***************************************************************************)
(* C25: every run of extract_text terminates, whatever the document and    *)
(* whatever the remote calls return or raise; at the end exactly one       *)
(* ExtractionResult is returned, a success or a failure, and nothing       *)
(* happens after it; no run loops on cache expiry.                         *)
(***************************************************************************)
C25_TerminatesWithOneResult ==
    /\ <>Done
    /\ [](Done => /\ result # None
                  /\ raised = None
                  /\ Val(result).success <=> ~Failed(result))
    /\ [][~Done]_vars

C25_Witness ==
    /\ Done /\ mode = "cached" /\ ExpiredFirst(0) /\ SecondExpiry(1)
    /\ Failed(result)
    /\ StartsWith(Val(Val(result).error), "Cache error: ")

NoCredential == ctor_args # None /\ ~Truthy(Val(ctor_args).api_key)

(***************************************************************************)
(* C26: a missing credential is rejected at construction: constructing     *)
(* either extractor class with an empty or None api key raises an error    *)
(* and leaves no extractor, so extract_text is never called, and no        *)
(* remote call made, without a credential; an extractor that exists        *)
(* holds the non-empty key it was given.                                   *)
(***************************************************************************)
C26_CredentialCheckedAtConstruction ==
    /\ (NoCredential /\ ctor_pc # "new") =>
          /\ ctor_pc = "failed"
          /\ Val(ctor_result) = Raise(Exc("ValueError", "Gemini API key is required"))
    /\ ctor_pc \in {"constructed", "called"} =>
          /\ ~Raised(Val(ctor_result))
          /\ Val(Val(ctor_result).value).api_key = Val(ctor_args).api_key
          /\ Truthy(Val(Val(ctor_result).value).api_key)
    /\ NoCredential => calls = <<>>

C26_Witness ==
    /\ ctor_pc = "failed"
    /\ Val(ctor_args).class = "GeminiCachedExtractor"
    /\ Val(ctor_args).api_key = Some("")
    /\ Val(ctor_args).model_name = Some("gemini-2.5-pro")
    /\ Raised(Val(ctor_result))

(***************************************************************************)
(* C27: in every run delete_document is issued at most once for the        *)
(* uploaded document handle, also on the uncached fallback path, where     *)
(* both _extract_batched_without_cache and the enclosing                   *)
(* _extract_large_pdf have a cleanup block.                                *)
(***************************************************************************)
C27_DocumentDeletedAtMostOnce ==
    \A i \in Idx("delete_document") : \A j \in Idx("delete_document") :
        calls[i].handle = calls[j].handle => i = j

CreatedBefore(i) == {j \in Idx("create_cache") : j < i /\ calls[j].outcome = "ok"}

(***************************************************************************)
(* C28: at every point the cache handle a generate call uses is the most   *)
(* recently created one: after a recreation triggered by a cache expiry    *)
(* on batch k, the retry of batch k and the generate calls of every later  *)
(* batch use the new handle and never the expired one.                     *)
(***************************************************************************)
C28_GenerateUsesNewestCache ==
    LET cached == Idx("generate_cached")
    IN  \A i \in cached :
            LET created == CreatedBefore(i)
            IN  /\ created # {}
                /\ calls[i].handle = calls[LastOf(created)].handle
                /\ \A e \in cached :
                      (e < i /\ calls[e].outcome = "expired"
                             /\ \E c \in created : c > e) =>
                          calls[i].handle # calls[e].handle

C28_Witness ==
    /\ Done /\ ExpiredFirst(0) /\ Count("create_cache") = 2
    /\ Len(batches) = 3 /\ BatchedSuccess
    /\ calls[FirstOf(Gens(0))].handle = 1
    /\ calls[LastOf(Gens(0))].handle = 2
    /\ \A i \in Gens(1) \cup Gens(2) : calls[i].handle = 2

PlannedBatches == Len(calculate_batches(Val(page_count)))

EveryBatchExpiredOnce ==
    \A k \in 0..(PlannedBatches - 1) :
        /\ ExpiredFirst(k)
        /\ Cardinality(Gens(k)) = 2
        /\ Accepted(LastOf(Gens(k)))

(***************************************************************************)
(* C29: the one-retry bound is per batch, not per request: each batch may  *)
(* trigger one recreation, so on n planned batches there are at most       *)
(* 1 + n create_cache calls and at most 2n cached generate calls, and a    *)
(* run in which every batch expires once and succeeds on its retry ends    *)
(* in success.                                                             *)
(***************************************************************************)
C29_RetryBoundPerBatch ==
    Batched =>
        LET planned == PlannedBatches
            creations == Count("create_cache")
            generations == Count("generate_cached")
        IN  /\ creations <= 1 + planned
            /\ generations <= 2 * planned
            /\ \A k \in 0..(planned - 1) :
                  Cardinality(Recreations(k)) <= 1 /\ Cardinality(Gens(k)) <= 2
            /\ (Done /\ mode = "cached" /\ EveryBatchExpiredOnce) =>
                  /\ BatchedSuccess
                  /\ Val(result).used_caching
                  /\ creations = 1 + planned
                  /\ generations = 2 * planned

C29_Witness ==
    /\ BatchedSuccess /\ page_count = Some(6) /\ EveryBatchExpiredOnce
    /\ Count("create_cache") = 4 /\ Count("generate_cached") = 6

FatalGenerate(i) ==
    calls[i].op = "generate_cached" /\ calls[i].outcome \in {"incomplete", "error"}

(***************************************************************************)
(* C30: in cached mode only a cache expiry triggers a recreation: every    *)
(* create_cache after the initial one directly follows a generate call     *)
(* that ended in CacheExpired, and a generate failure of any other kind    *)
(* (abnormal stop reason, transport error), on the first attempt or on     *)
(* the retry, is followed by no create_cache and no generate call; the     *)
(* run ends with success = false after deleting the cache and the          *)
(* document.                                                               *)
(***************************************************************************)
C30_OnlyExpiryTriggersRecreation ==
    /\ \A j \in Idx("create_cache") :
          calls[j].idx >= 0 =>
              /\ calls[j - 1].op = "generate_cached"
              /\ calls[j - 1].outcome = "expired"
              /\ calls[j - 1].idx = calls[j].idx
    /\ \A i \in DOMAIN calls :
          FatalGenerate(i) =>
              /\ NoCallAfter(i)
              /\ Done =>
                    /\ Failed(result)
                    /\ ~Val(result).used_caching
                    /\ \E d \in Idx("delete_cache") :
                          d > i /\ calls[d].handle = calls[i].handle
                    /\ \E d \in Idx("delete_document") :
                          d > i /\ calls[d].handle = Val(uploaded_file)

C30_Witness ==
    /\ Done /\ ExpiredFirst(1) /\ Cardinality(Gens(1)) = 2
    /\ calls[LastOf(Gens(1))].outcome = "error"
    /\ \E i \in Gens(0) : calls[i].outcome = "ok"
    /\ Val(result).error = Some("Extraction failed: Exception: Deadline exceeded")
    /\ Count("delete_cache") = 1 /\ Count("delete_document") = 1

IsPrefix(s, t) == Len(s) <= Len(t) /\ \A i \in 1..Len(s) : s[i] = t[i]

FailedRecreation(j) ==
    calls[j].op = "create_cache" /\ calls[j].idx >= 0 /\ calls[j].outcome # "ok"

(***************************************************************************)
(* C31: the uncached fallback is entered only from the initial cache       *)
(* creation, before any generate call.  A create_cache failure during a    *)
(* recreation after a cache expiry, whatever its kind, cache-ineligibility *)
(* included, is fatal: no further create_cache or generate call, cached    *)
(* or uncached, follows, the result is a failure, and the cache handle     *)
(* held so far and the document are still deleted.                         *)
(***************************************************************************)
C31_FallbackOnlyFromInitialCreation ==
    /\ \A i \in Idx("generate_uncached") :
          /\ Idx("generate_cached") = {}
          /\ \E c \in Idx("create_cache") :
                c < i /\ calls[c].idx = -1 /\ calls[c].outcome = "ineligible"
    /\ \A j \in DOMAIN calls :
          FailedRecreation(j) =>
              /\ NoCallAfter(j)
              /\ mode = "cached"
              /\ Done =>
                    /\ Failed(result)
                    /\ \E d \in Idx("delete_cache") :
                          d > j /\ calls[d].handle = calls[j - 1].handle
                    /\ \E d \in Idx("delete_document") :
                          d > j /\ calls[d].handle = Val(uploaded_file)

C31_Witness ==
    /\ Done /\ mode = "cached"
    /\ \E j \in DOMAIN calls : FailedRecreation(j) /\ calls[j].outcome = "ineligible"
    /\ Val(result).error = Some("Extraction failed: Exception: Too few pages")
    /\ Count("delete_cache") = 1 /\ Count("delete_document") = 1

AboutToGenerate == pc \in {"generate", "recreate", "retry", "nc_generate"}

AcceptedCalls(k) == {i \in GensOfBatch(k) : Accepted(i)}

(***************************************************************************)
(* C32: completed batches are never re-executed.  When the generate call   *)
(* for batch k is about to be issued, also as a retry after a cache        *)
(* recreation, the accumulator holds exactly the accepted outcomes of      *)
(* batches 0..k-1, in order; each batch has at most one accepted outcome;  *)
(* and no generate call for a batch follows its accepted outcome.          *)
(***************************************************************************)
C32_CompletedBatchesKept ==
    /\ AboutToGenerate =>
          /\ Len(acc.results) = batch_idx
          /\ \A k \in 0..(batch_idx - 1) :
                /\ Cardinality(AcceptedCalls(k)) = 1
                /\ acc.results[k + 1].key = batches[k + 1]
                /\ acc.results[k + 1].text = AcceptedOf(k).text
          /\ acc.total_prompt_tokens = SumAccepted("prompt_tokens", batch_idx)
          /\ acc.total_completion_tokens = SumAccepted("completion_tokens", batch_idx)
          /\ GensOfBatch(batch_idx) = {} \/ pc \in {"recreate", "retry"}
    /\ LET generates == Generates
       IN  \A i \in generates :
               Accepted(i) =>
                   \A j \in generates :
                       /\ j > i => calls[j].idx > calls[i].idx
                       /\ (calls[j].idx = calls[i].idx /\ Accepted(j)) => j = i

C32_Witness ==
    /\ pc = "retry" /\ batch_idx = 2 /\ ExpiredFirst(2)
    /\ Len(acc.results) = 2 /\ acc.results[1].text = "| a |"
    /\ acc.total_prompt_tokens = 100 /\ acc.total_completion_tokens = 50
    /\ Count("create_cache") = 2

Deletes == Idx("delete_cache") \cup Idx("delete_document")

Acquiring(i) ==
    calls[i].op \in {"upload", "create_cache", "generate_cached", "generate_uncached"}

(***************************************************************************)
(* C33: remote calls on the batched path come in the order upload,         *)
(* create_cache, generate calls, delete_cache, delete_document: no         *)
(* create_cache or generate is issued before an upload succeeded, no       *)
(* cached generate before a create_cache succeeded, and no upload,         *)
(* create_cache or generate after the first delete call.                   *)
(***************************************************************************)
C33_RemoteCallOrder ==
    Batched =>
        /\ calls # <<>> => (calls[1].op = "upload" /\ Count("upload") = 1)
        /\ \A i \in Idx("create_cache") \cup Generates :
              calls[1].outcome = "ok"
        /\ \A i \in Idx("generate_cached") :
              \E c \in Idx("create_cache") : c < i /\ calls[c].outcome = "ok"
        /\ \A i \in Idx("create_cache") :
              calls[i].idx = -1 => \A g \in Generates : i < g
        /\ \A d \in Deletes : \A j \in DOMAIN calls : j > d => ~Acquiring(j)
        /\ \A c \in Idx("delete_cache") : \A d \in Idx("delete_document") : c < d

C33_Witness ==
    /\ Done /\ mode = "cached" /\ Len(batches) = 4 /\ BatchedSuccess /\ NoExpiry
    /\ Len(calls) = 8
    /\ calls[1].op = "upload" /\ calls[2].op = "create_cache"
    /\ \A i \in 3..6 : calls[i].op = "generate_cached"
    /\ calls[7].op = "delete_cache" /\ calls[8].op = "delete_document"

UploadFailed ==
    Batched /\ calls # <<>> /\ calls[1].op = "upload" /\ calls[1].outcome = "error"

(***************************************************************************)
(* C34: when the upload fails on the batched path, the result is a         *)
(* failure and no create_cache, generate, delete_cache or delete_document  *)
(* call is made: the failed upload is the only remote call of the run.     *)
(***************************************************************************)
C34_UploadFailureMakesNoOtherCall ==
    UploadFailed =>
        /\ Len(calls) = 1
        /\ uploaded_file = None /\ cached_content = None
        /\ Done => /\ Failed(result)
                   /\ StartsWith(Val(Val(result).error), "Extraction failed: ")
                   /\ ~Val(result).used_caching

C34_Witness ==
    /\ Done /\ UploadFailed /\ page_count = Some(7)
    /\ Val(result).error = Some("Extraction failed: Exception: Upload failed")
    /\ Len(calls) = 1

UncachedOfBatch(k) == {i \in Idx("generate_uncached") : calls[i].idx = k}

(***************************************************************************)
(* C35: in uncached fallback mode there is no retry: each planned batch    *)
(* gets at most one generate call, create_cache is never called again      *)
(* after the fallback started, and the first failing batch ends the run    *)
(* with success = false and used_caching = false.                          *)
(***************************************************************************)
C35_NoRetryInFallback ==
    mode = "uncached" =>
        /\ \A k \in 0..(Len(batches) - 1) : Cardinality(UncachedOfBatch(k)) <= 1
        /\ Count("create_cache") = 1
        /\ Idx("generate_cached") = {}
        /\ \A i \in Idx("generate_uncached") :
              ~Accepted(i) =>
                  /\ NoCallAfter(i)
                  /\ Done => /\ Failed(result)
                             /\ ~Val(result).used_caching
                             /\ StartsWith(Val(Val(result).error),
                                           "Batched extraction failed: ")

C35_Witness ==
    /\ Done /\ mode = "uncached" /\ Count("generate_uncached") = 2
    /\ Accepted(FirstOf(Idx("generate_uncached")))
    /\ calls[LastOf(Idx("generate_uncached"))].outcome = "error"
    /\ Val(result).error = Some("Batched extraction failed: Exception: Cache expired")

ClsEmpty == ~Raised(cls_outcome) /\ (~ClsHasCandidate \/ (ClsNormal /\ ~ClsHasText))

(***************************************************************************)
(* C36: a response with a normal stop but empty text, or with no           *)
(* candidates, is treated alike on the direct path and on the batched      *)
(* paths: the direct extraction fails ('No text extracted' / 'No           *)
(* response') and the batch helpers fail as well, never returning a batch  *)
(* result with empty text.                                                 *)
(***************************************************************************)
C36_EmptyResponseFailsEverywhere ==
    (Classified /\ ClsEmpty) =>
        /\ Failed(cls_direct)
        /\ Raised(Val(cls_cached))
        /\ Raised(Val(cls_uncached))

(***************************************************************************)
(* What the code does with such a response: the direct path fails, and     *)
(* both batch helpers return a batch result, whose text is empty when the  *)
(* response has none.                                                      *)
(***************************************************************************)
C36_BatchAcceptsEmptyText ==
    (Classified /\ ClsEmpty) =>
        LET text == IF ClsHasText THEN Val(ClsResponse.text) ELSE ""
        IN  /\ Failed(cls_direct)
            /\ ~Raised(Val(cls_cached)) /\ Val(Val(cls_cached).value).text = text
            /\ ~Raised(Val(cls_uncached)) /\ Val(Val(cls_uncached).value).text = text

SingleCall == calls[FirstOf(Idx("generate_direct"))]

(***************************************************************************)
(* C37: on the direct path (at most 5 pages) the returned result has       *)
(* page_count equal to the probed count and used_caching = false, whether  *)
(* the single generate call succeeded, failed or returned an abnormal      *)
(* stop; success, text, error and the token fields are exactly those of    *)
(* the result of the single-call extractor.                                *)
(***************************************************************************)
C37_DirectResultFrame ==
    (Done /\ mode = "direct") =>
        /\ Count("generate_direct") = 1
        /\ page_count # None /\ Val(page_count) <= LARGE_PDF_THRESHOLD
        /\ Val(result).page_count = page_count
        /\ Val(result).used_caching = FALSE
        /\ LET single == Val(SingleCall.returned)
           IN  /\ single.page_count = None
               /\ Val(result).success = single.success
               /\ Val(result).text = single.text
               /\ Val(result).error = single.error
               /\ Val(result).prompt_tokens = single.prompt_tokens
               /\ Val(result).completion_tokens = single.completion_tokens
               /\ Val(result).total_tokens = single.total_tokens

C37_Witness ==
    /\ Done /\ mode = "direct" /\ page_count = Some(3)
    /\ SingleCall.outcome = "ok"
    /\ Val(result).error = Some("Response was truncated due to maximum token limit")
    /\ Val(result).page_count = Some(3)
    /\ Val(SingleCall.returned).page_count = None

C37_WitnessSuccess ==
    /\ Done /\ mode = "direct" /\ page_count = Some(5)
    /\ Val(result).success /\ Val(result).text = Some("| a |")
    /\ Val(result).page_count = Some(5)
====
